---- MODULE Spec2Model ----
(***************************************************************************)
(* Model of build_sender_features (Machine Learning/preprocessing.py).     *)
(*                                                                         *)
(* A Python str is a sequence of one-character strings.  A compiled        *)
(* regular expression is the sequence of the quantified character classes  *)
(* of its pattern, and matching is the simulation of the pattern over the  *)
(* positions 0..Len(s) of the string.  A DataFrame is a record             *)
(* [index, columns, data]; a cell is <<v>> or the missing value NaN.       *)
(***************************************************************************)
EXTENDS Integers, Sequences, FiniteSets, TLC

\* ------------------------------------------------------------------ bounds
\* A sender of the single-row tables is a concatenation of at most MaxFrags
\* fragments; a batch table has at most MaxRows rows.
MaxFrags == 3
MaxRows == 2

\* ------------------------------------------------------------- characters
\* Characters str.isspace() / the regex class \s accept.
Whitespace == {" ", "\n", "\t", "\r"}
\* Characters str.isdigit() / the regex class \d accept.
Digits == {"0", "1", "2", "3", "4", "5", "6", "7", "8", "9"}
LowerLetters ==
  {"a", "b", "c", "d", "e", "f", "g", "h", "i", "j", "k", "l", "m",
   "n", "o", "p", "q", "r", "s", "t", "u", "v", "w", "x", "y", "z"}
UpperLetters ==
  {"A", "B", "C", "D", "E", "F", "G", "H", "I", "J", "K", "L", "M",
   "N", "O", "P", "Q", "R", "S", "T", "U", "V", "W", "X", "Y", "Z"}
LowerOf ==
  [c \in UpperLetters |->
     CASE c = "A" -> "a" [] c = "B" -> "b" [] c = "C" -> "c" [] c = "D" -> "d"
       [] c = "E" -> "e" [] c = "F" -> "f" [] c = "G" -> "g" [] c = "H" -> "h"
       [] c = "I" -> "i" [] c = "J" -> "j" [] c = "K" -> "k" [] c = "L" -> "l"
       [] c = "M" -> "m" [] c = "N" -> "n" [] c = "O" -> "o" [] c = "P" -> "p"
       [] c = "Q" -> "q" [] c = "R" -> "r" [] c = "S" -> "s" [] c = "T" -> "t"
       [] c = "U" -> "u" [] c = "V" -> "v" [] c = "W" -> "w" [] c = "X" -> "x"
       [] c = "Y" -> "y" [] c = "Z" -> "z"]
UpperOf == [c \in LowerLetters |-> CHOOSE u \in UpperLetters : LowerOf[u] = c]
\* str.lower() on one character.
LowerChar(c) == IF c \in UpperLetters THEN LowerOf[c] ELSE c
\* str.lower()
Lower(s) == [k \in 1..Len(s) |-> LowerChar(s[k])]

\* ------------------------------------------------------------ str methods
\* x in s, for a one-character x
Contains(s, c) == \E k \in 1..Len(s) : s[k] = c
\* s.count(c), for a one-character c
Count(s, c) == Cardinality({k \in 1..Len(s) : s[k] = c})
\* Number of leading / trailing characters of s that are in chars.
RECURSIVE LeadIn(_, _, _)
LeadIn(s, chars, k) ==
  IF k < Len(s) /\ s[k + 1] \in chars THEN LeadIn(s, chars, k + 1) ELSE k
RECURSIVE TrailIn(_, _, _)
TrailIn(s, chars, k) ==
  IF k < Len(s) /\ s[Len(s) - k] \in chars THEN TrailIn(s, chars, k + 1) ELSE k
\* s.strip(chars)
StripFrom(s, chars, a) ==
  IF a = Len(s) THEN <<>> ELSE SubSeq(s, a + 1, Len(s) - TrailIn(s, chars, 0))
StripChars(s, chars) == StripFrom(s, chars, LeadIn(s, chars, 0))
\* s.strip()
Strip(s) == StripChars(s, Whitespace)
\* s.startswith(c), s.endswith(c), for a one-character c
StartsWith(s, c) == Len(s) >= 1 /\ s[1] = c
EndsWith(s, c) == Len(s) >= 1 /\ s[Len(s)] = c
\* Position of the first c in s at or after position k (0 when there is none).
RECURSIVE Find(_, _, _)
Find(s, c, k) ==
  IF k > Len(s) THEN 0 ELSE IF s[k] = c THEN k ELSE Find(s, c, k + 1)
\* s.split(c, 1) of a string that contains c: <<before, after>>.
SplitAt(s, p) == <<SubSeq(s, 1, p - 1), SubSeq(s, p + 1, Len(s))>>
Split1(s, c) == SplitAt(s, Find(s, c, 1))

\* ----------------------------------------------------------- regex engine
\* A character class: the characters listed, or (neg) all the others.
Set(chars) == [neg |-> FALSE, chars |-> chars]
Not(chars) == [neg |-> TRUE, chars |-> chars]
\* Quantified atoms: x, x+, x*, x?
One(cls) == [q |-> "1", cls |-> cls]
Plus(cls) == [q |-> "+", cls |-> cls]
Star(cls) == [q |-> "*", cls |-> cls]
Opt(cls) == [q |-> "?", cls |-> cls]
Lit(c) == One(Set({c}))
\* A literal word.
Word(w) == [k \in 1..Len(w) |-> Lit(w[k])]

\* re.I: a class holds both cases of each of its letters.
SwapCase(c) ==
  IF c \in UpperLetters THEN LowerOf[c] ELSE IF c \in LowerLetters THEN UpperOf[c] ELSE c
FoldClass(cls) == [neg |-> cls.neg, chars |-> cls.chars \cup {SwapCase(c) : c \in cls.chars}]
\* re.compile(pattern, re.I)
IgnoreCase(atoms) ==
  [k \in 1..Len(atoms) |-> [q |-> atoms[k].q, cls |-> FoldClass(atoms[k].cls)]]

\* c is in the class.
InClass(c, cls) == (c \in cls.chars) # cls.neg

\* Length of the longest run of class characters that starts after position p.
RECURSIVE RunLen(_, _, _)
RunLen(s, cls, p) ==
  IF p < Len(s) /\ InClass(s[p + 1], cls) THEN 1 + RunLen(s, cls, p + 1) ELSE 0

\* The positions the atom can end at when it starts at a position of P.
StepOne(s, cls, P) == {p + 1 : p \in {q \in P : q < Len(s) /\ InClass(s[q + 1], cls)}}
StepMany(s, cls, P) == UNION {(p + 1)..(p + RunLen(s, cls, p)) : p \in P}
Step(s, atom, P) ==
  IF atom.q \in {"1", "?"}
    THEN (IF atom.q = "?" THEN P ELSE {}) \cup StepOne(s, atom.cls, P)
    ELSE (IF atom.q = "*" THEN P ELSE {}) \cup StepMany(s, atom.cls, P)

\* The positions atoms[k..] can end at when matching starts at a position of P.
RECURSIVE Run(_, _, _, _)
Run(s, atoms, k, P) ==
  IF k > Len(atoms) \/ P = {} THEN P ELSE Run(s, atoms, k + 1, Step(s, atoms[k], P))

\* The anchor $ : the end of the string, or just before a final newline.
AtEnd(s, P) ==
  Len(s) \in P \/ (Len(s) >= 1 /\ s[Len(s)] = "\n" /\ (Len(s) - 1) \in P)

\* re.match of a pattern ^...$
Match(re, s) == AtEnd(s, Run(s, re, 1, {0}))
\* re.search of a pattern without anchors: a match from some position
Search(re, s) == Run(s, re, 1, 0..Len(s)) # {}

\* ------------------------------------------------------- compiled patterns
NoAtSpace == Not({"@"} \cup Whitespace)
Space == Set(Whitespace)
\* [^@\s]+@[^@\s]+\.[^@\s]+
EmailAtoms == <<Plus(NoAtSpace), Lit("@"), Plus(NoAtSpace), Lit("."), Plus(NoAtSpace)>>

RE_EMAIL_ONLY == IgnoreCase(EmailAtoms)
RE_PAREN_NAME ==
  IgnoreCase(EmailAtoms \o
             <<Star(Space), Lit("("), Plus(Not({")"})), Lit(")"), Star(Space)>>)
RE_PAREN_EMPTY ==
  IgnoreCase(EmailAtoms \o
             <<Star(Space), Lit("("), Star(Space), Lit(")"), Star(Space)>>)
\* the group (?P<addr><\s*[^>]+@[^>]+\s*>) of RE_DISPLAY_ANGLE
AddrAtoms ==
  IgnoreCase(<<Lit("<"), Star(Space), Plus(Not({">"})), Lit("@"), Plus(Not({">"})),
               Star(Space), Lit(">")>>)
RE_QUOTED_NAME_ANG ==
  IgnoreCase(<<Lit("\""), Star(Space), Plus(Not({"\""})), Star(Space), Lit("\""),
               Star(Space), Lit("<"), Plus(Not({">"})), Lit(">")>>)
RE_LAST_COMMA_FIRST ==
  IgnoreCase(<<Opt(Set({"\""})), Plus(Not({"\"", ",", "<", ">"})), Lit(","),
               Plus(Not({"\"", ",", "<", ">"})), Lit("\""), Star(Space),
               Lit("<"), Plus(Not({">"})), Lit(">")>>)
\* NAME_CHARS: A-Za-z, the accented Latin letters U+00C0-U+00D6, U+00D8-U+00F6,
\* U+00F8-U+00FF, the apostrophe U+0027, the backtick U+0060, U+2019, - . and
\* the space.  These characters are written by their code points.
AccentedLetters == {"U+00C0", "U+00D6", "U+00D8", "U+00E9", "U+00F6", "U+00F8", "U+00FF"}
NAME_CHARS ==
  Set(LowerLetters \cup UpperLetters \cup AccentedLetters
      \cup {"U+0027", "U+0060", "U+2019", "-", ".", " "})
RE_NAME_ANG ==
  <<Plus(NAME_CHARS), Plus(Space), Plus(NAME_CHARS), Star(Space),
    Lit("<"), Plus(Not({">"})), Lit(">")>>
RE_USERNAME_STYLE ==
  <<Plus(Set(LowerLetters \cup UpperLetters \cup Digits \cup {".", "_", "-"}))>>
RE_BRACKETS == <<Lit("["), Star(Not({"]"})), Lit("]")>>
\* (no\.hostname\.specified|localhost|example\.com): one pattern per alternative
FakeWords ==
  {<<"n", "o", ".", "h", "o", "s", "t", "n", "a", "m", "e", ".",
     "s", "p", "e", "c", "i", "f", "i", "e", "d">>,
   <<"l", "o", "c", "a", "l", "h", "o", "s", "t">>,
   <<"e", "x", "a", "m", "p", "l", "e", ".", "c", "o", "m">>}
RE_FAKE_DOMAIN == {IgnoreCase(Word(w)) : w \in FakeWords}
\* re.search of an alternation of patterns
SearchAny(res, s) == \E re \in res : Search(re, s)

\* ------------------------------------------------------------------ cells
\* A cell of a DataFrame holds one value, or is missing (None / NaN).
NaN == <<>>
Cell(v) == <<v>>
\* pd.isna
isna(c) == c = NaN

\* ---------------------------------------------------------------- helpers
\* _clean: re.sub(r'\s+', ' ', s).strip() ; every maximal whitespace run
\* becomes one space.
RECURSIVE SubSpaces(_, _)
SubSpaces(s, k) ==
  IF k > Len(s) THEN <<>>
  ELSE IF s[k] \in Whitespace
         THEN <<" ">> \o SubSpaces(s, k + 1 + RunLen(s, Space, k))
         ELSE <<s[k]>> \o SubSpaces(s, k + 1)
\* _clean without the final strip()
clean_no_strip(c) == IF isna(c) THEN <<>> ELSE SubSpaces(c[1], 1)
_clean(c) == IF isna(c) THEN <<>> ELSE Strip(SubSpaces(c[1], 1))

Min(S) == CHOOSE x \in S : \A y \in S : x <= y
Max(S) == CHOOSE x \in S : \A y \in S : x >= y

\* RE_DISPLAY_ANGLE.search(s), ^(?P<disp>.*?)(?P<addr><\s*[^>]+@[^>]+\s*>)\s*$ :
\* the ends of the group addr when the group disp ends at k.
AddrEnds(s, k) ==
  {e \in Run(s, AddrAtoms, 1, {k}) : AtEnd(s, Run(s, <<Star(Space)>>, 1, {e}))}
\* The groups of the match whose group disp ends at k.
DisplayAngleGroups(s, k) ==
  [found |-> TRUE, disp |-> SubSeq(s, 1, k), addr |-> SubSeq(s, k + 1, Max(AddrEnds(s, k)))]
\* The lazy .*? takes the shortest of the prefixes ks after which the rest of
\* the pattern matches.
DisplayAngleMatch(s, ks) ==
  IF ks = {} THEN [found |-> FALSE, disp |-> <<>>, addr |-> <<>>]
  ELSE DisplayAngleGroups(s, Min(ks))
\* A prefix matched by .*? holds no newline.
RE_DISPLAY_ANGLE(s) ==
  DisplayAngleMatch(s, {k \in 0..Len(s) : AddrEnds(s, k) # {} /\ \A j \in 1..k : s[j] # "\n"})

\* re.search(r'<\s*([^>]+)\s*>', addr): the leftmost match; each greedy
\* quantifier takes the longest stretch after which the rest still matches.
\* The result is group(1), or NoGroup when there is no match.
NoGroup == <<"no match">>
InnerOpen == <<Lit("<"), Star(Space)>>
InnerTail1 == <<Plus(Not({">"})), Star(Space), Lit(">")>>
InnerTail2 == <<Star(Space), Lit(">")>>
\* group(1) starts after position a: its greedy end.
InnerGroupFrom(addr, a) ==
  SubSeq(addr, a + 1,
         Max({x \in Run(addr, <<Plus(Not({">"}))>>, 1, {a}) :
                Run(addr, InnerTail2, 1, {x}) # {}}))
\* The match starts at position i: the greedy end of <\s*
InnerGroupAt(addr, i) ==
  InnerGroupFrom(addr, Max({x \in Run(addr, InnerOpen, 1, {i}) :
                             Run(addr, InnerTail1, 1, {x}) # {}}))
InnerGroupOf(addr, starts) ==
  IF starts = {} THEN NoGroup ELSE InnerGroupAt(addr, Min(starts))
InnerGroup(addr) ==
  InnerGroupOf(addr, {i \in 0..Len(addr) :
                       Run(addr, InnerOpen \o InnerTail1, 1, {i}) # {}})

\* email = m2.group(1).strip() if m2 else addr.strip()
InnerEmail(addr, m2) == IF m2 # NoGroup THEN Strip(m2) ELSE Strip(addr)
\* The result of _split_display_angle for the match m of RE_DISPLAY_ANGLE.
SplitOfMatch(m) ==
  IF ~m.found THEN <<<<>>, <<>>>>
  ELSE <<StripChars(Strip(m.disp), {"\"", " "}), InnerEmail(m.addr, InnerGroup(m.addr))>>
\* _split_display_angle(s): <<display, email>>
_split_display_angle(s) ==
  IF s = <<>> THEN <<<<>>, <<>>>> ELSE SplitOfMatch(RE_DISPLAY_ANGLE(s))

\* ------------------------------------------------------------- classifier
\* The keys of the flags dictionary, in their order.
FLAG_NAMES ==
  <<"is_mail_only", "is_mail_paren_name", "is_name_angle", "is_quoted_name",
    "is_last_comma_first", "is_username_angle", "is_display_angle", "is_multi_mails",
    "is_mail_empty_parens", "is_double_at", "is_mail_with_brackets", "is_fake_domain",
    "is_other", "is_display_empty_angle", "is_quoted_text_no_email">>
FlagSet == {FLAG_NAMES[k] : k \in 1..Len(FLAG_NAMES)}
\* OrderedDict.fromkeys(..., 0) with flags[flag] = 1
SetFlag(flag) == [f \in FlagSet |-> IF f = flag THEN 1 ELSE 0]
\* One branch of the decision list: the flag it sets and the category it appends.
Branch(flag, cat) == [flag |-> flag, cat |-> cat]

\* The sub-classification of a sender with an angle address.
ClassifyDisplay(sender_clean, disp_core) ==
  IF Match(RE_QUOTED_NAME_ANG, sender_clean)
    THEN Branch("is_quoted_name", "quoted_lastname_firstname_angle")
  ELSE IF Match(RE_LAST_COMMA_FIRST, sender_clean)
    THEN Branch("is_last_comma_first", "lastname_comma_firstname_angle")
  ELSE IF Match(RE_NAME_ANG, sender_clean)
    THEN Branch("is_name_angle", "lastname_firstname_angle")
  ELSE IF Match(RE_USERNAME_STYLE, disp_core) /\ ~Contains(disp_core, " ")
    THEN Branch("is_username_angle", "username_angle")
  ELSE Branch("is_display_angle", "display_angle")
ClassifyAngle(sender_clean, disp) ==
  ClassifyDisplay(sender_clean, StripChars(disp, {"\"", " "}))

\* The special cases of a sender without an angle address.
\* The quoted-text branch appends its category and sets the flag of "other".
ClassifyStrippedWrongFlag(sender_clean, stripped) ==
  IF stripped \in {<<"\"", "\"", " ", "<", ">">>, <<"\"", "\"", "<", ">">>}
    THEN Branch("is_display_empty_angle", "display_empty_angle")
  ELSE IF /\ StartsWith(stripped, "\"")
          /\ EndsWith(stripped, "\"")
          /\ ~Contains(sender_clean, "@")
    THEN Branch("is_other", "quoted_text_only")
  ELSE Branch("is_other", "other")
ClassifyStripped(sender_clean, stripped) ==
  IF stripped \in {<<"\"", "\"", " ", "<", ">">>, <<"\"", "\"", "<", ">">>}
    THEN Branch("is_display_empty_angle", "display_empty_angle")
  ELSE IF /\ StartsWith(stripped, "\"")
          /\ EndsWith(stripped, "\"")
          /\ ~Contains(sender_clean, "@")
    THEN Branch("is_quoted_text_no_email", "quoted_text_only")
  ELSE Branch("is_other", "other")
ClassifySpecial(sender_clean) == ClassifyStripped(sender_clean, Strip(sender_clean))

\* disp, angle = _split_display_angle(sender_clean); if angle: ... else: ...
ClassifySplit(sender_clean, split) ==
  IF split[2] # <<>>
    THEN ClassifyAngle(sender_clean, split[1])
    ELSE ClassifySpecial(sender_clean)

\* The decision list with the multi_mails rule moved after the double-at rule.
ClassifyMultiLate(sender_clean) ==
  IF sender_clean = <<>>
    THEN Branch("is_other", "other")
  ELSE IF Match(RE_PAREN_EMPTY, sender_clean)
    THEN Branch("is_mail_empty_parens", "mail_empty_parentheses")
  ELSE IF Match(RE_PAREN_NAME, sender_clean)
    THEN Branch("is_mail_paren_name", "mail_parentheses_lastname")
  ELSE IF Search(RE_BRACKETS, sender_clean)
    THEN Branch("is_mail_with_brackets", "mail_with_brackets")
  ELSE IF Match(RE_EMAIL_ONLY, sender_clean)
    THEN Branch("is_mail_only", "mail_only")
  ELSE IF Count(sender_clean, "@") > 1
    THEN Branch("is_double_at", "mail_double_at")
  ELSE IF Contains(sender_clean, ",") /\ Count(sender_clean, "@") >= 2
    THEN Branch("is_multi_mails", "multi_mails")
  ELSE IF SearchAny(RE_FAKE_DOMAIN, sender_clean)
    THEN Branch("is_fake_domain", "mail_fake_domain")
  ELSE ClassifySplit(sender_clean, _split_display_angle(sender_clean))

\* The ordered decision list over the cleaned sender.
Classify(sender_clean) ==
  IF sender_clean = <<>>
    THEN Branch("is_other", "other")
  ELSE IF Contains(sender_clean, ",") /\ Count(sender_clean, "@") >= 2
    THEN Branch("is_multi_mails", "multi_mails")
  ELSE IF Match(RE_PAREN_EMPTY, sender_clean)
    THEN Branch("is_mail_empty_parens", "mail_empty_parentheses")
  ELSE IF Match(RE_PAREN_NAME, sender_clean)
    THEN Branch("is_mail_paren_name", "mail_parentheses_lastname")
  ELSE IF Search(RE_BRACKETS, sender_clean)
    THEN Branch("is_mail_with_brackets", "mail_with_brackets")
  ELSE IF Match(RE_EMAIL_ONLY, sender_clean)
    THEN Branch("is_mail_only", "mail_only")
  ELSE IF Count(sender_clean, "@") > 1
    THEN Branch("is_double_at", "mail_double_at")
  ELSE IF SearchAny(RE_FAKE_DOMAIN, sender_clean)
    THEN Branch("is_fake_domain", "mail_fake_domain")
  ELSE ClassifySplit(sender_clean, _split_display_angle(sender_clean))

\* -------------------------------------------------------------- extractor
\* math.log2(k) in thousandths of a bit, for k in 1..64.
Log2Milli ==
  <<0, 1000, 1585, 2000, 2322, 2585, 2807, 3000,
    3170, 3322, 3459, 3585, 3700, 3807, 3907, 4000,
    4087, 4170, 4248, 4322, 4392, 4459, 4524, 4585,
    4644, 4700, 4755, 4807, 4858, 4907, 4954, 5000,
    5044, 5087, 5129, 5170, 5209, 5248, 5285, 5322,
    5358, 5392, 5426, 5459, 5492, 5524, 5555, 5585,
    5615, 5644, 5672, 5700, 5728, 5755, 5781, 5807,
    5833, 5858, 5883, 5907, 5931, 5954, 5977, 6000>>
\* Counter(s): the number of occurrences of each character of s.
Counter(s) == [c \in {s[k] : k \in 1..Len(s)} |-> Count(s, c)]
RECURSIVE SumOver(_, _)
SumOver(f, S) ==
  IF S = {} THEN 0 ELSE LET x == CHOOSE x \in S : TRUE IN f[x] + SumOver(f, S \ {x})
\* _shannon_entropy, in thousandths of a bit:
\* -sum((cnt/n) * log2(cnt/n)) = sum(cnt * (log2(n) - log2(cnt))) / n
EntropyOf(c, n) ==
  SumOver([x \in DOMAIN c |-> c[x] * (Log2Milli[n] - Log2Milli[c[x]])], DOMAIN c) \div n
_shannon_entropy(s) == IF s = <<>> THEN 0 ELSE EntropyOf(Counter(s), Len(s))

FREE_DOMAINS ==
  {<<"g", "m", "a", "i", "l", ".", "c", "o", "m">>,
   <<"y", "a", "h", "o", "o", ".", "c", "o", "m">>,
   <<"h", "o", "t", "m", "a", "i", "l", ".", "c", "o", "m">>,
   <<"o", "u", "t", "l", "o", "o", "k", ".", "c", "o", "m">>,
   <<"a", "o", "l", ".", "c", "o", "m">>,
   <<"i", "c", "l", "o", "u", "d", ".", "c", "o", "m">>,
   <<"p", "r", "o", "t", "o", "n", "m", "a", "i", "l", ".", "c", "o", "m">>,
   <<"w", "a", "n", "a", "d", "o", "o", ".", "f", "r">>,
   <<"o", "r", "a", "n", "g", "e", ".", "f", "r">>,
   <<"l", "a", "p", "o", "s", "t", "e", ".", "n", "e", "t">>,
   <<"f", "r", "e", "e", ".", "f", "r">>,
   <<"s", "f", "r", ".", "f", "r">>,
   <<"y", "a", "n", "d", "e", "x", ".", "r", "u">>,
   <<"m", "a", "i", "l", ".", "r", "u">>,
   <<"z", "o", "h", "o", ".", "c", "o", "m">>}

\* The keys of a row of features, in their order.
FEATURE_NAMES ==
  <<"email_local_len", "email_domain_len", "email_local_entropy",
    "email_local_has_digits", "email_local_has_underscore", "email_local_has_dot",
    "email_local_has_plus", "email_domain_is_free", "email_domain_has_digit",
    "email_domain_has_dash">>
FeatureSet == {FEATURE_NAMES[k] : k \in 1..Len(FEATURE_NAMES)}
\* int(bool)
int(b) == IF b THEN 1 ELSE 0

\* The email of a row: the angle address, else the cleaned string when it is
\* a raw email.
\* The fallback to the cleaned string without the raw-email test.
LocateEmailAnyString(s_clean, split) == IF split[2] = <<>> THEN s_clean ELSE split[2]
LocateEmail(s_clean, split) ==
  IF split[2] = <<>> /\ Match(RE_EMAIL_ONLY, s_clean) THEN s_clean ELSE split[2]
\* <<local, domain>> of an email
LocalDomain(email) ==
  IF Contains(email, "@") THEN Split1(email, "@") ELSE <<<<>>, <<>>>>
\* The dictionary appended to rows.
FeatureRow(local, domain) ==
  [f \in FeatureSet |->
     CASE f = "email_local_len" -> Len(local)
       [] f = "email_domain_len" -> Len(domain)
       [] f = "email_local_entropy" -> _shannon_entropy(local)
       [] f = "email_local_has_digits" -> int(\E k \in 1..Len(local) : local[k] \in Digits)
       [] f = "email_local_has_underscore" -> int(Contains(local, "_"))
       [] f = "email_local_has_dot" -> int(Contains(local, "."))
       [] f = "email_local_has_plus" -> int(Contains(local, "+"))
       [] f = "email_domain_is_free" -> int(Lower(domain) \in FREE_DOMAINS)
       [] f = "email_domain_has_digit" -> int(\E k \in 1..Len(domain) : domain[k] \in Digits)
       [] f = "email_domain_has_dash" -> int(Contains(domain, "-"))]

\* -------------------------------------------------------------- DataFrame
\* A table: the row labels, the column names in order, and per column the
\* cells in row order.
Range(seq) == {seq[k] : k \in 1..Len(seq)}
RowCount(t) == Len(t.index)
\* pd.DataFrame(list of dicts): the rows are labelled 0..n-1 and the columns
\* are the keys of the first dict; of an empty list, a table with no column.
DataFrame(dicts, names) ==
  [index |-> [k \in 1..Len(dicts) |-> k - 1],
   columns |-> IF dicts = <<>> THEN <<>> ELSE names,
   data |-> [c \in (IF dicts = <<>> THEN {} ELSE Range(names)) |->
               [k \in 1..Len(dicts) |-> Cell(dicts[k][c])]]]
\* df[name] = values (a list as long as the table): a new last column.
SetColumn(t, name, values) ==
  [index |-> t.index,
   columns |-> Append(t.columns, name),
   data |-> [c \in Range(t.columns) \cup {name} |->
               IF c = name THEN [k \in 1..Len(values) |-> Cell(values[k])]
               ELSE t.data[c]]]
\* Row positions in ascending label order.
RECURSIVE SortLabels(_)
SortLabels(S) ==
  IF S = {} THEN <<>>
  ELSE <<Min(S)>> \o SortLabels({x \in S : \E y \in S : y < x})
\* The labels of right that left lacks, in right's order.
RECURSIVE Missing(_, _, _)
Missing(left, right, k) ==
  IF k > Len(right) THEN <<>>
  ELSE (IF right[k] \in Range(left) THEN <<>> ELSE <<right[k]>>)
       \o Missing(left, right, k + 1)
\* The row labels of pd.concat(axis=1) of two tables with unique labels: the
\* labels themselves when both tables have the same, else their union, which
\* pandas returns sorted or in order of appearance.
UnionIndex(left, right, sorted) ==
  IF left = right THEN left
  ELSE IF sorted THEN SortLabels(Range(left) \cup Range(right))
  ELSE left \o Missing(left, right, 1)
\* Position of a label in an index (0 when the index lacks it).
RECURSIVE PosOf(_, _, _)
PosOf(index, label, k) ==
  IF k > Len(index) THEN 0 ELSE IF index[k] = label THEN k ELSE PosOf(index, label, k + 1)
\* The column of t aligned on the labels of index: NaN where t has no such row.
CellAt(column, p) == IF p = 0 THEN NaN ELSE column[p]
Reindex(t, c, index) ==
  [k \in 1..Len(index) |-> CellAt(t.data[c], PosOf(t.index, index[k], 1))]
\* pd.concat([left, right], axis=1): the columns of both, aligned on row labels.
Aligned(left, right, index) ==
  [index |-> index,
   columns |-> left.columns \o right.columns,
   data |-> [c \in Range(left.columns) \cup Range(right.columns) |->
               IF c \in Range(left.columns) THEN Reindex(left, c, index)
               ELSE Reindex(right, c, index)]]
\* The new columns put before the columns of the table.
concat_swapped(left, right, sorted) ==
  Aligned(right, left, UnionIndex(left.index, right.index, sorted))
concat(left, right, sorted) ==
  Aligned(left, right, UnionIndex(left.index, right.index, sorted))

\* ------------------------------------------------------------------ inputs
\* The fragments senders are made of.
Fragments ==
  {<<"a", "@", "b", ".", "c">>,
   <<"<", "j", ".", "1", "@", "s", "f", "r", ".", "f", "r", ">">>,
   <<" ">>, <<"\n">>, <<",">>, <<"<", "x", "@">>,
   <<"\"", "A", ",", "b", "\"">>,
   <<"A", ",", "b", "\"">>,
   <<"\"", "A", " ", "b", "\"">>,
   <<"A", " ", "b">>,
   <<"u", "_", "1">>,
   <<"(", ")">>, <<"(", "x", ")">>, <<"[", "x", "]">>,
   <<"L", "o", "c", "a", "l", "h", "o", "s", "t">>,
   <<"\"", "\"", "<", ">">>}
\* The concatenations of at most n fragments.
RECURSIVE Concats(_)
Extend(shorter) == shorter \cup {s \o f : s \in shorter, f \in Fragments}
Concats(n) == IF n = 0 THEN {<<>>} ELSE Extend(Concats(n - 1))
\* The senders of the batch tables.
SampleSenders ==
  {NaN,
   Cell(<<"a", "@", "b", ".", "c">>),
   Cell(<<"\"", "A", " ", "b", "\"", " ", "<", "j", ".", "1", "@", "s", "f", "r", ".", "f", "r", ">">>),
   Cell(<<"A", ",", "b", "\"", "\n", "<", "j", ".", "1", "@", "s", "f", "r", ".", "f", "r", ">">>)}
\* The sequences of n distinct row labels.
Labels == 0..MaxRows
Indexes(n) == {ix \in [1..n -> Labels] : \A j, k \in 1..n : j # k => ix[j] # ix[k]}

\* ------------------------------------------------------------------- state
VARIABLES
  df,            \* the table: the input, then with the columns added
  cats,          \* list of the categories of the rows classified
  flag_dicts,    \* list of their flags
  rows,          \* list of the feature dicts of the rows extracted
  sender_clean,  \* first loop: the cleaned sender of the last row
  s_clean,       \* second loop: the cleaned sender of the last row
  split,         \* second loop: <<display, email>> of _split_display_angle
  email,         \* second loop: the email located
  local,         \* second loop: its local part
  domain,        \* second loop: its domain
  sort_union,    \* whether this pandas sorts the union of two indexes
  input,         \* the table the function was called with
  pc             \* "classify", "extract" or "done"

vars ==
  <<df, cats, flag_dicts, rows, sender_clean, s_clean, split, email, local,
    domain, sort_union, input, pc>>

Table(index, senders) ==
  [index |-> index, columns |-> <<"sender">>, data |-> [c \in {"sender"} |-> senders]]

InitLocals ==
  /\ cats = <<>>
  /\ flag_dicts = <<>>
  /\ rows = <<>>
  /\ sender_clean = <<>>
  /\ s_clean = <<>>
  /\ split = <<<<>>, <<>>>>
  /\ email = <<>>
  /\ local = <<>>
  /\ domain = <<>>
  /\ input = df
  /\ pc = "classify"

\* A table of one row, labelled 0, whose sender is null or any concatenation
\* of fragments.
InitSingle ==
  /\ \E c \in {NaN} \cup {Cell(s) : s \in Concats(MaxFrags)} : df = Table(<<0>>, <<c>>)
  /\ sort_union = FALSE
  /\ InitLocals

\* A table of up to MaxRows rows with distinct labels.
InitBatch ==
  /\ \E n \in 0..MaxRows :
       \E ix \in Indexes(n) :
         \E senders \in [1..n -> SampleSenders] : df = Table(ix, senders)
  /\ sort_union \in BOOLEAN
  /\ InitLocals

Init == InitSingle \/ InitBatch

\* cats.append(category) and flag_dicts.append(flags) of the branch taken.
AppendBranch(b) ==
  /\ cats' = Append(cats, b.cat)
  /\ flag_dicts' = Append(flag_dicts, SetFlag(b.flag))

\* One iteration of the first loop: classify the next sender.
ClassifyRow ==
  /\ pc = "classify"
  /\ Len(cats) < RowCount(df)
  /\ sender_clean' = _clean(df.data["sender"][Len(cats) + 1])
  /\ AppendBranch(Classify(sender_clean'))
  /\ UNCHANGED <<df, rows, s_clean, split, email, local, domain, sort_union, input, pc>>

\* After the first loop: the category column and the flag columns.
ConcatFlags ==
  /\ pc = "classify"
  /\ Len(cats) = RowCount(df)
  /\ df' = concat(SetColumn(df, "sender_category", cats),
                  DataFrame(flag_dicts, FLAG_NAMES), sort_union)
  /\ pc' = "extract"
  /\ UNCHANGED <<cats, flag_dicts, rows, sender_clean, s_clean, split, email, local,
                 domain, sort_union, input>>

\* local, domain = email.split("@", 1), or both empty
SplitEmail(ld) ==
  /\ local' = ld[1]
  /\ domain' = ld[2]

\* One iteration of the second loop: the features of the next sender.
ExtractRow ==
  /\ pc = "extract"
  /\ Len(rows) < RowCount(df)
  /\ s_clean' = _clean(df.data["sender"][Len(rows) + 1])
  /\ split' = _split_display_angle(s_clean')
  /\ email' = LocateEmail(s_clean', split')
  /\ SplitEmail(LocalDomain(email'))
  /\ rows' = Append(rows, FeatureRow(local', domain'))
  /\ UNCHANGED <<df, cats, flag_dicts, sender_clean, sort_union, input, pc>>

\* After the second loop: the feature columns; the table is returned.
ConcatFeatures ==
  /\ pc = "extract"
  /\ Len(rows) = RowCount(df)
  /\ df' = concat(df, DataFrame(rows, FEATURE_NAMES), sort_union)
  /\ pc' = "done"
  /\ UNCHANGED <<cats, flag_dicts, rows, sender_clean, s_clean, split, email, local,
                 domain, sort_union, input>>

Next == ClassifyRow \/ ConcatFlags \/ ExtractRow \/ ConcatFeatures

Spec == Init /\ [][Next]_vars

\* ------------------------------------------------------------------ claims
\* The first loop has just classified a row: sender_clean is its cleaned sender.
Classified == pc = "classify" /\ Len(cats) >= 1
\* The second loop has just extracted a row: s_clean, split, email, local and
\* domain are those of that row.
Extracted == pc = "extract" /\ Len(rows) >= 1
LastCat == cats[Len(cats)]
LastRow == rows[Len(rows)]
InputSender(i) == input.data["sender"][i]

\* The flag of each category.
CategoryFlag ==
  [c \in {"mail_only", "mail_parentheses_lastname", "lastname_firstname_angle",
          "quoted_lastname_firstname_angle", "lastname_comma_firstname_angle",
          "username_angle", "display_angle", "multi_mails", "mail_empty_parentheses",
          "mail_double_at", "mail_with_brackets", "mail_fake_domain", "other",
          "display_empty_angle", "quoted_text_only"} |->
     CASE c = "mail_only" -> "is_mail_only"
       [] c = "mail_parentheses_lastname" -> "is_mail_paren_name"
       [] c = "lastname_firstname_angle" -> "is_name_angle"
       [] c = "quoted_lastname_firstname_angle" -> "is_quoted_name"
       [] c = "lastname_comma_firstname_angle" -> "is_last_comma_first"
       [] c = "username_angle" -> "is_username_angle"
       [] c = "display_angle" -> "is_display_angle"
       [] c = "multi_mails" -> "is_multi_mails"
       [] c = "mail_empty_parentheses" -> "is_mail_empty_parens"
       [] c = "mail_double_at" -> "is_double_at"
       [] c = "mail_with_brackets" -> "is_mail_with_brackets"
       [] c = "mail_fake_domain" -> "is_fake_domain"
       [] c = "other" -> "is_other"
       [] c = "display_empty_angle" -> "is_display_empty_angle"
       [] c = "quoted_text_only" -> "is_quoted_text_no_email"]

\* C1: every row the first loop has classified has one of the 15 categories,
\* and in its flags exactly the flag of that category is 1 and the 14 others
\* are 0.
C1_OneCategoryOneFlag ==
  Classified =>
    \A i \in 1..Len(cats) :
      /\ cats[i] \in DOMAIN CategoryFlag
      /\ Cardinality(DOMAIN flag_dicts[i]) = 15
      /\ \A f \in DOMAIN flag_dicts[i] :
           flag_dicts[i][f] = IF f = CategoryFlag[cats[i]] THEN 1 ELSE 0
\* A null sender and a quoted name with an angle address, both classified.
C1_Witness ==
  /\ Classified /\ Len(cats) = 2
  /\ isna(InputSender(1)) /\ cats[1] = "other"
  /\ cats[2] = "quoted_lastname_firstname_angle"

\* The values pandas aligns on: the row of the output at position i.
OutputRowAgrees(i) ==
  /\ df.data["sender"][i] = InputSender(i)
  /\ df.data["sender_category"][i] = Cell(Classify(_clean(InputSender(i))).cat)
  /\ \A f \in FlagSet :
       df.data[f][i] = Cell(SetFlag(Classify(_clean(InputSender(i))).flag)[f])
  /\ \A f \in FeatureSet :
       df.data[f][i] =
         Cell(FeatureRow(
                LocalDomain(LocateEmail(_clean(InputSender(i)),
                                        _split_display_angle(_clean(InputSender(i)))))[1],
                LocalDomain(LocateEmail(_clean(InputSender(i)),
                                        _split_display_angle(_clean(InputSender(i)))))[2])[f])
\* C2: the table returned has the rows of the input table, in their order,
\* and in every row the category, the flags and the features are those of
\* that row's sender, whatever the row labels of the input.
C2_RowsAligned ==
  pc = "done" =>
    /\ RowCount(df) = RowCount(input)
    /\ \A i \in 1..RowCount(input) : OutputRowAgrees(i)

\* C3: a sender whose cleaned form holds a comma and at least two '@' is
\* classified multi_mails, whatever later rule it also matches.
C3_MultiMailsFirst ==
  (Classified /\ Contains(sender_clean, ",") /\ Count(sender_clean, "@") >= 2)
    => LastCat = "multi_mails"
\* Two angle addresses separated by a comma: also a double '@'.
C3_Witness ==
  /\ Classified
  /\ Contains(sender_clean, ",") /\ Count(sender_clean, "@") = 2
  /\ Contains(sender_clean, "<")
  /\ LastCat = "multi_mails"

\* A name with one comma inside it: Last,First
CommaName(x) ==
  /\ Count(x, ",") = 1
  /\ ~StartsWith(x, ",") /\ ~EndsWith(x, ",")
  /\ \A k \in 1..Len(x) : x[k] \notin {"\"", "<", ">"}
\* The display d is Last,First with or without surrounding double quotes.
CommaDisplay(d) ==
  \/ CommaName(d)
  \/ Len(d) >= 2 /\ StartsWith(d, "\"") /\ EndsWith(d, "\"")
       /\ CommaName(SubSeq(d, 2, Len(d) - 1))
\* s is a display with a comma, a space and one angle address with one '@'.
LastCommaFirstForm(s) ==
  \E p \in 2..Len(s) :
    /\ s[p] = "<" /\ s[p - 1] = " " /\ EndsWith(s, ">")
    /\ Count(s, "<") = 1 /\ Count(s, ">") = 1 /\ Count(s, "@") = 1
    /\ Find(s, "@", 1) > p + 1 /\ Find(s, "@", 1) < Len(s) - 1
    /\ CommaDisplay(Strip(SubSeq(s, 1, p - 1)))
\* C4: a sender "Last, First" <addr> or Last,First <addr> is classified
\* lastname_comma_firstname_angle, with the flag is_last_comma_first.
C4_LastCommaFirst ==
  (Classified /\ LastCommaFirstForm(sender_clean))
    => (LastCat = "lastname_comma_firstname_angle"
        /\ flag_dicts[Len(cats)]["is_last_comma_first"] = 1)

\* The part of s after its first '@' (empty when s has none).
AfterAt(s) == IF Contains(s, "@") THEN Split1(s, "@")[2] ELSE <<>>
\* C5: a sender none of the rules 1-7 matches is classified mail_fake_domain
\* exactly when the domain of its address matches a placeholder domain.
C5_FakeDomainOfAddress ==
  (/\ Classified
   /\ sender_clean # <<>>
   /\ LastCat \notin {"multi_mails", "mail_empty_parentheses", "mail_parentheses_lastname",
                      "mail_with_brackets", "mail_only", "mail_double_at"})
    => (LastCat = "mail_fake_domain" <=> SearchAny(RE_FAKE_DOMAIN, AfterAt(sender_clean)))

\* C6: a sender classified mail_only is a bare address: one '@', no
\* whitespace, no double quote, angle bracket or parenthesis.
C6_MailOnlyIsBare ==
  (Classified /\ LastCat = "mail_only")
    => /\ Count(sender_clean, "@") = 1
       /\ \A k \in 1..Len(sender_clean) :
            sender_clean[k] \notin Whitespace \cup {"\"", "<", ">", "(", ")"}

\* No address is located: no angle address, and the cleaned string is no
\* bare address.
NoAddress == split[2] = <<>> /\ ~Match(RE_EMAIL_ONLY, s_clean)
\* C7: every feature of an extracted row has a value; when no address is
\* located all of them are 0; when one is, local holds no '@' and local,
\* '@' and domain make up the address located.
C7_FeaturesTotal ==
  Extracted =>
    /\ DOMAIN LastRow = FeatureSet
    /\ \A f \in FeatureSet : LastRow[f] \in Nat
    /\ NoAddress => \A f \in FeatureSet : LastRow[f] = 0
    /\ ~NoAddress =>
         /\ email = (IF split[2] # <<>> THEN split[2] ELSE s_clean)
         /\ ~Contains(local, "@")
         /\ local \o <<"@">> \o domain = email
         /\ LastRow["email_local_len"] + 1 + LastRow["email_domain_len"] = Len(email)
\* An address located inside angle brackets, after a display.
C7_Witness ==
  /\ Extracted /\ split[1] # <<>> /\ split[2] # <<>>
  /\ LastRow["email_local_len"] = 3 /\ LastRow["email_domain_is_free"] = 1

\* C8: the cleaned sender has no whitespace at either end, no whitespace but
\* single spaces, and cleaning it again changes nothing; a null sender
\* cleans to the empty string.
C8_CleanIdempotent ==
  Classified =>
    /\ _clean(Cell(sender_clean)) = sender_clean
    /\ ~(StartsWith(sender_clean, " ") \/ EndsWith(sender_clean, " "))
    /\ \A k \in 1..Len(sender_clean) :
         /\ sender_clean[k] \in Whitespace => sender_clean[k] = " "
         /\ k > 1 => ~(sender_clean[k] = " " /\ sender_clean[k - 1] = " ")
    /\ isna(InputSender(Len(cats))) => sender_clean = <<>>
\* A sender with a leading run of whitespace that holds a newline.
C8_Witness ==
  /\ Classified /\ Len(cats) = 1 /\ ~isna(InputSender(1))
  /\ Len(InputSender(1)[1]) >= 3
  /\ InputSender(1)[1][1] = " " /\ InputSender(1)[1][2] = "\n"
  /\ sender_clean # <<>>

\* The columns before the features: the sender, its category, the 15 flags.
LeadingColumns ==
  <<"sender", "sender_category",
    "is_mail_only", "is_mail_paren_name", "is_name_angle", "is_quoted_name",
    "is_last_comma_first", "is_username_angle", "is_display_angle", "is_multi_mails",
    "is_mail_empty_parens", "is_double_at", "is_mail_with_brackets", "is_fake_domain",
    "is_other", "is_display_empty_angle", "is_quoted_text_no_email">>
AngleBlocks(s) ==
  {i \in 1..Len(s) :
     /\ s[i] = "<"
     /\ Find(s, ">", i + 1) # 0
     /\ Contains(SubSeq(s, i + 1, Find(s, ">", i + 1) - 1), "@")}
\* C10: when the cleaned string holds a block <...> with an '@' in it, the
\* helper returns the text of the first such block as the address and what
\* precedes the block, without surrounding quotes and spaces, as the display,
\* also when other text follows the block; when it holds none, both are empty.
C10_FirstAngleBlock ==
  Extracted =>
    IF AngleBlocks(s_clean) = {}
      THEN split = <<<<>>, <<>>>>
      ELSE /\ split[2] = Strip(SubSeq(s_clean, Min(AngleBlocks(s_clean)) + 1,
                                      Find(s_clean, ">", Min(AngleBlocks(s_clean)) + 1) - 1))
           /\ split[1] = StripChars(SubSeq(s_clean, 1, Min(AngleBlocks(s_clean)) - 1),
                                    {"\"", " "})

====
